---- MODULE Spec2Model ----
(***************************************************************************)
(* pygob: a decoder (and, for the primitive types, an encoder) of Go's gob *)
(* wire format.                                                            *)
(*                                                                         *)
(* Byte strings (bytes, bytearray) are sequences of 0..255.  A Python      *)
(* value is a tuple whose first element names its type, so that values of  *)
(* different types can be compared:                                        *)
(*   <<"bool", b>>  <<"int", n>>  <<"float", le8>>  <<"complex", re, im>>  *)
(*   <<"bytes", s>>  <<"bytearray", s>>  <<"str", codepoints>>             *)
(*   <<"namedtuple", name, fieldnames, values>>                            *)
(*   <<"tuple", values>>  <<"list", values>>  <<"dict", pairs>>            *)
(* A float is held as the 8 bytes of its IEEE-754 binary64 representation, *)
(* least significant byte first.                                           *)
(*                                                                         *)
(* A call that returns (value, rest) or raises is a record                 *)
(*   [err |-> "", val |-> value, buf |-> rest]   (returned)                *)
(*   [err |-> "<exception>", val |-> None, buf |-> <<>>]   (raised)        *)
(***************************************************************************)
EXTENDS Integers, Sequences, FiniteSets, TLC

VARIABLES
    types,  \* Loader.types: the registry of the session, type id -> decoder
    pc,     \* which operation ran last
    val,    \* the Python value handed to an encoder
    aux,    \* a second input of the operation (bytes that follow a message,
            \* which zero fields a struct body omits)
    wire,   \* the bytes an encoder produced / a decoder is handed
    res,    \* the outcome of the last decode
    segs    \* per segment read by the last Loader.load: <<length, typeid,
            \* bytes the segment's decoding moved the buffer by>>

vars == <<types, pc, val, aux, wire, res, segs>>

----------------------------------------------------------------------------
(* Python built-ins *)

None == <<"None">>

Ok(v, b) == [err |-> "", val |-> v, buf |-> b]

Raise(e) == [err |-> e, val |-> None, buf |-> <<>>]

\* s[k:] for k >= 0
Drop(s, k) == IF k >= Len(s) THEN <<>> ELSE SubSeq(s, k + 1, Len(s))

\* s[:k] for k >= 0
Take(s, k) == IF k >= Len(s) THEN s ELSE SubSeq(s, 1, k)

\* s[i:k] for 0 <= i, 0 <= k
Slice(s, i, k) == Drop(Take(s, k), i)

\* bytes(reversed(s))
RECURSIVE Reversed(_)
Reversed(s) == IF s = <<>> THEN <<>> ELSE Append(Reversed(Tail(s)), Head(s))

\* ~n
BitNot(n) == (0 - n) - 1

\* what an encoder returns (bytes) or raises
Enc(b) == [err |-> "", bytes |-> b]

EncRaise(e) == [err |-> e, bytes |-> <<>>]

----------------------------------------------------------------------------
(* pygob/types.py: the predefined type ids *)

BOOL == 1
INT == 2
UINT == 3
FLOAT == 4
BYTE_SLICE == 5
\* STRING in types.py; STRING is a reserved word of the language
STRING_ == 6
COMPLEX == 7
INTERFACE == 8
WIRE_TYPE == 16
ARRAY_TYPE == 17
COMMON_TYPE == 18
SLICE_TYPE == 19
STRUCT_TYPE == 20
FIELD_TYPE == 21
FIELD_TYPE_SLICE == 22
MAP_TYPE == 23

----------------------------------------------------------------------------
(* pygob/types.py: GoUint, GoInt, GoBool *)

\* the loop "for b in body: n = (n + b) << 8"
RECURSIVE ShiftIn(_, _)
ShiftIn(body, n) ==
    IF body = <<>> THEN n ELSE ShiftIn(Tail(body), (n + Head(body)) * 256)

GoUint_decode_DropLast(buf) ==
    IF Len(buf) = 0 THEN Raise("IndexError")
    ELSE IF buf[1] < 128 THEN Ok(buf[1], Drop(buf, 1))
    ELSE LET length == 256 - buf[1]
         IN  IF length >= Len(buf) THEN Raise("IndexError")
             ELSE Ok(ShiftIn(Slice(buf, 1, length), 0), Drop(buf, length + 1))

GoUint_decode(buf) ==
    IF Len(buf) = 0 THEN Raise("IndexError")           \* buf[0]
    ELSE IF buf[1] < 128 THEN Ok(buf[1], Drop(buf, 1))
    ELSE LET length == 256 - buf[1]
         IN  IF length >= Len(buf) THEN Raise("IndexError")   \* buf[length]
             ELSE Ok(ShiftIn(Slice(buf, 1, length), 0) + buf[length + 1],
                     Drop(buf, length + 1))

\* the loop "while n: encoded.append(n & 0xFF); n = n >> 8"
RECURSIVE LowBytesFirst(_, _)
LowBytesFirst(n, encoded) ==
    IF n = 0 THEN encoded
    ELSE LowBytesFirst(n \div 256, Append(encoded, n % 256))

GoUint_encode_NoTrim(n) ==
    IF n < 0 THEN EncRaise("ValueError")
    ELSE IF n < 128 THEN Enc(<<n>>)
    ELSE LET encoded == LowBytesFirst(n, <<>>) \o <<0>>
         IN  Enc(Reversed(Append(encoded, 256 - Len(encoded))))

GoUint_encode(n) ==
    IF n < 0 THEN EncRaise("ValueError")
    ELSE IF n < 128 THEN Enc(<<n>>)
    ELSE LET encoded == LowBytesFirst(n, <<>>)
         IN  Enc(Reversed(Append(encoded, 256 - Len(encoded))))

GoInt_decode(buf) ==
    LET halve(r) ==
            IF r.err # "" THEN r
            ELSE Ok((IF r.val % 2 = 1 THEN BitNot(r.val) ELSE r.val) \div 2, r.buf)
    IN  halve(GoUint_decode(buf))

GoInt_encode_NoNot(n) ==
    IF n < 0 THEN GoUint_encode(((0 - n) * 2) + 1) ELSE GoUint_encode(n * 2)

GoInt_encode(n) ==
    IF n < 0 THEN GoUint_encode((BitNot(n) * 2) + 1) ELSE GoUint_encode(n * 2)

GoBool_decode(buf) ==
    LET test(r) == IF r.err # "" THEN r ELSE Ok(r.val = 1, r.buf)
    IN  test(GoUint_decode(buf))

GoBool_encode(b) == GoUint_encode(IF b THEN 1 ELSE 0)

----------------------------------------------------------------------------
(* pygob/types.py: GoFloat, GoByteSlice, GoString, GoComplex *)

\* struct.unpack('>Q', b): the 8 bytes of b as an integer, first byte highest
RECURSIVE UnpackQ(_, _)
UnpackQ(b, n) == IF b = <<>> THEN n ELSE UnpackQ(Tail(b), (n * 256) + Head(b))

\* f is <<"float", le8>>; struct.pack('<d', f) is le8
GoFloat_encode(f) == GoUint_encode(UnpackQ(f[2], 0))

GoByteSlice_encode(buf) == Enc(GoUint_encode(Len(buf)).bytes \o buf)

GoByteSlice_decode(buf) ==
    LET cut(r) ==
            IF r.err # "" THEN r
            ELSE Ok(<<"bytearray", Take(r.buf, r.val)>>, Drop(r.buf, r.val))
    IN  cut(GoUint_decode(buf))

\* str.encode('utf-8') of one code point (a Unicode scalar value)
Utf8(cp) ==
    IF cp < 128 THEN <<cp>>
    ELSE IF cp < 2048 THEN <<192 + (cp \div 64), 128 + (cp % 64)>>
    ELSE IF cp < 65536
        THEN <<224 + (cp \div 4096), 128 + ((cp \div 64) % 64), 128 + (cp % 64)>>
    ELSE <<240 + (cp \div 262144), 128 + ((cp \div 4096) % 64),
           128 + ((cp \div 64) % 64), 128 + (cp % 64)>>

\* s.encode('utf-8'), s a sequence of code points
RECURSIVE StrEncodeUtf8(_)
StrEncodeUtf8(s) ==
    IF s = <<>> THEN <<>> ELSE Utf8(Head(s)) \o StrEncodeUtf8(Tail(s))

GoString_encode(s) == GoByteSlice_encode(StrEncodeUtf8(s))

\* whether b[i] is a continuation byte
Continuation(b, i) == i <= Len(b) /\ b[i] >= 128 /\ b[i] < 192

\* b.decode('utf-8'): the code points of b, acc those already read
RECURSIVE BytesDecodeUtf8(_, _)
BytesDecodeUtf8(b, acc) ==
    IF b = <<>> THEN Ok(<<"str", acc>>, <<>>)
    ELSE IF b[1] < 128 THEN BytesDecodeUtf8(Drop(b, 1), Append(acc, b[1]))
    ELSE IF b[1] >= 194 /\ b[1] < 224 /\ Continuation(b, 2)
        THEN BytesDecodeUtf8(Drop(b, 2), Append(acc, (b[1] - 192) * 64 + (b[2] - 128)))
    ELSE IF b[1] >= 224 /\ b[1] < 240 /\ Continuation(b, 2) /\ Continuation(b, 3)
        THEN LET cp == (b[1] - 224) * 4096 + (b[2] - 128) * 64 + (b[3] - 128)
             IN  IF cp < 2048 \/ (cp >= 55296 /\ cp < 57344)
                 THEN Raise("UnicodeDecodeError")
                 ELSE BytesDecodeUtf8(Drop(b, 3), Append(acc, cp))
    ELSE IF /\ b[1] >= 240 /\ b[1] < 245
            /\ Continuation(b, 2) /\ Continuation(b, 3) /\ Continuation(b, 4)
        THEN LET cp == (b[1] - 240) * 262144 + (b[2] - 128) * 4096
                        + (b[3] - 128) * 64 + (b[4] - 128)
             IN  IF cp < 65536 \/ cp > 1114111 THEN Raise("UnicodeDecodeError")
                 ELSE BytesDecodeUtf8(Drop(b, 4), Append(acc, cp))
    ELSE Raise("UnicodeDecodeError")

GoString_decode(buf) ==
    LET cut(r) ==
            IF r.err # "" THEN r
            ELSE Ok(<<"bytes", Take(r.buf, r.val)>>, Drop(r.buf, r.val))
    IN  cut(GoUint_decode(buf))

\* z is <<"complex", re, im>>, re and im the le8 of z.real and z.imag
GoComplex_encode(z) ==
    Enc(GoFloat_encode(<<"float", z[2]>>).bytes \o GoFloat_encode(<<"float", z[3]>>).bytes)

----------------------------------------------------------------------------
(* pygob/dumper.py *)

\* Dumper.types: type(value) -> the Go type's typeid, or None
Dumper_types(python_type) ==
    CASE python_type = "bool" -> BOOL
      [] python_type = "int" -> INT
      [] python_type = "float" -> FLOAT
      [] python_type = "bytes" -> BYTE_SLICE
      [] python_type = "str" -> STRING_
      [] python_type = "complex" -> COMPLEX
      [] OTHER -> 0

\* go_type.encode(value) of the Go type Dumper.types gives for value
Dumper_encode(value) ==
    CASE value[1] = "bool" -> GoBool_encode(value[2])
      [] value[1] = "int" -> GoInt_encode(value[2])
      [] value[1] = "float" -> GoFloat_encode(value)
      [] value[1] = "bytes" -> GoByteSlice_encode(value[2])
      [] value[1] = "str" -> GoString_encode(value[2])
      [] value[1] = "complex" -> GoComplex_encode(value)

Dumper_dump_NoZeroByte(value) ==
    IF Dumper_types(value[1]) = 0 THEN EncRaise("NotImplementedError")
    ELSE LET framed(segment) == Enc(GoUint_encode(Len(segment)).bytes \o segment)
         IN  framed(GoInt_encode(Dumper_types(value[1])).bytes
                        \o Dumper_encode(value).bytes)

\* Dumper.dump, Dumper._dump: no Go type of Dumper.types is a GoStruct
\* instance, so the zero byte is always written
Dumper_dump(value) ==
    IF Dumper_types(value[1]) = 0 THEN EncRaise("NotImplementedError")
    ELSE LET framed(segment) == Enc(GoUint_encode(Len(segment)).bytes \o segment)
         IN  framed(GoInt_encode(Dumper_types(value[1])).bytes
                        \o <<0>>
                        \o Dumper_encode(value).bytes)

----------------------------------------------------------------------------
(* pygob/loader.py: the Go types the Loader decodes with.  loader.py        *)
(* defines its own GoBool ... GoMap; a decoder object is a tuple            *)
(*   <<"GoBool">> <<"GoUint">> <<"GoInt">> <<"GoFloat">> <<"GoByteSlice">>  *)
(*   <<"GoString">> <<"GoComplex">>                                         *)
(*   <<"GoStruct", name, fields>>  <<"GoWireType", name, fields>>           *)
(*   <<"GoArray", typeid, length>>  <<"GoSlice", typeid>>                   *)
(*   <<"GoMap", key_typeid, elem_typeid>>                                   *)
(* fields is a sequence of <<name, typeid>>; the typeid and length of an    *)
(* array, slice or map are the Python values the descriptor held.           *)

\* the depth of nested zero values at which Python gives up (RecursionError)
MaxDepth == 6

Loader_GoUint_decode(buf) ==
    IF Len(buf) = 0 THEN Raise("struct.error")      \* struct.unpack('b', b'')
    ELSE IF buf[1] < 128 THEN Ok(buf[1], Drop(buf, 1))
    ELSE LET length == 256 - buf[1]
         IN  IF length >= Len(buf) THEN Raise("IndexError")   \* buf[length]
             ELSE Ok(ShiftIn(Slice(buf, 1, length), 0) + buf[length + 1],
                     Drop(buf, length + 1))

Loader_GoInt_decode_NoNot(buf) ==
    LET halve(r) == IF r.err # "" THEN r ELSE Ok(r.val \div 2, r.buf)
    IN  halve(Loader_GoUint_decode(buf))

Loader_GoInt_decode(buf) ==
    LET halve(r) ==
            IF r.err # "" THEN r
            ELSE Ok((IF r.val % 2 = 1 THEN BitNot(r.val) ELSE r.val) \div 2, r.buf)
    IN  halve(Loader_GoUint_decode(buf))

Loader_GoBool_decode(buf) ==
    LET test(r) == IF r.err # "" THEN r ELSE Ok(<<"bool", r.val = 1>>, r.buf)
    IN  test(Loader_GoUint_decode(buf))

\* struct.pack('L', n) where a native long has 8 bytes, lowest first:
\* byte i (from 1) of the reversed packing is n's i-th highest byte
PackLReversed(n) ==
    [i \in 1..8 |-> IF i < 5 THEN 0
                    ELSE IF i = 5 THEN n \div 16777216
                    ELSE IF i = 6 THEN (n \div 65536) % 256
                    ELSE IF i = 7 THEN (n \div 256) % 256
                    ELSE n % 256]

Loader_GoFloat_decode(buf) ==
    LET pack(r) == IF r.err # "" THEN r ELSE Ok(<<"float", PackLReversed(r.val)>>, r.buf)
    IN  pack(Loader_GoUint_decode(buf))

Loader_GoByteSlice_decode(buf) ==
    LET cut(r) ==
            IF r.err # "" THEN r
            ELSE Ok(<<"bytearray", Take(r.buf, r.val)>>, Drop(r.buf, r.val))
    IN  cut(Loader_GoUint_decode(buf))

Loader_GoString_decode(buf) ==
    LET cut(r) ==
            IF r.err # "" THEN r
            ELSE Ok(<<"bytes", Take(r.buf, r.val)>>, Drop(r.buf, r.val))
    IN  cut(Loader_GoUint_decode(buf))

Loader_GoComplex_decode(buf) ==
    LET imag(re) ==
            IF re.err # "" THEN re
            ELSE LET both(im) ==
                        IF im.err # "" THEN im
                        ELSE Ok(<<"complex", re.val[2], im.val[2]>>, im.buf)
                 IN  both(Loader_GoFloat_decode(re.buf))
    IN  imag(Loader_GoFloat_decode(buf))

FloatZero == <<"float", <<0, 0, 0, 0, 0, 0, 0, 0>>>>

\* a == b of Python, for the values decoding yields: bytes and bytearray
\* compare by content, a namedtuple is a tuple, True is 1, a NaN equals
\* nothing, and an integer equals the float of the same value (only zero
\* is modelled: the floats of this model that equal an integer are 0.0)
Numeric(a) == a[1] \in {"int", "bool"}

AsInt(a) == IF a[1] = "bool" THEN (IF a[2] THEN 1 ELSE 0) ELSE a[2]

IsNaN(le8) == le8[8] % 128 = 127 /\ le8[7] >= 240 /\ SubSeq(le8, 1, 7) # <<0, 0, 0, 0, 0, 0, 240>>

FloatIsZero(le8) == SubSeq(le8, 1, 7) = <<0, 0, 0, 0, 0, 0, 0>> /\ le8[8] % 128 = 0

FloatEq(x, y) == ~IsNaN(x) /\ ~IsNaN(y) /\ (x = y \/ (FloatIsZero(x) /\ FloatIsZero(y)))

RECURSIVE PyEq(_, _)
PyEq(a, b) ==
    IF Numeric(a) /\ Numeric(b) THEN AsInt(a) = AsInt(b)
    ELSE IF a[1] = "float" /\ b[1] = "float" THEN FloatEq(a[2], b[2])
    ELSE IF a[1] = "float" /\ Numeric(b) THEN FloatIsZero(a[2]) /\ AsInt(b) = 0
    ELSE IF Numeric(a) /\ b[1] = "float" THEN FloatIsZero(b[2]) /\ AsInt(a) = 0
    ELSE IF a[1] = "complex" /\ b[1] = "complex"
        THEN FloatEq(a[2], b[2]) /\ FloatEq(a[3], b[3])
    ELSE IF a[1] \in {"bytes", "bytearray"} /\ b[1] \in {"bytes", "bytearray"}
        THEN a[2] = b[2]
    ELSE IF a[1] \in {"tuple", "namedtuple"} /\ b[1] \in {"tuple", "namedtuple"}
        THEN LET x == a[Len(a)]
                 y == b[Len(b)]
             IN  Len(x) = Len(y) /\ \A i \in 1..Len(x) : PyEq(x[i], y[i])
    ELSE IF a[1] = "list" /\ b[1] = "list"
        THEN Len(a[2]) = Len(b[2]) /\ \A i \in 1..Len(a[2]) : PyEq(a[2][i], b[2][i])
    ELSE IF a[1] = "dict" /\ b[1] = "dict"
        THEN /\ Len(a[2]) = Len(b[2])
             /\ \A i \in 1..Len(a[2]) : \E j \in 1..Len(b[2]) :
                    PyEq(a[2][i][1], b[2][j][1]) /\ PyEq(a[2][i][2], b[2][j][2])
    ELSE a = b

\* whether a value can be a dict key (hash(v) does not raise)
RECURSIVE Hashable(_)
Hashable(v) ==
    IF v[1] \in {"list", "dict", "bytearray"} THEN FALSE
    ELSE IF v[1] \in {"tuple", "namedtuple"}
        THEN \A i \in 1..Len(v[Len(v)]) : Hashable(v[Len(v)][i])
    ELSE TRUE

\* whether the registry has the key k, a Python value (the keys are integers)
HasKey(reg, k) == Numeric(k) /\ AsInt(k) \in DOMAIN reg

\* obj.name of a namedtuple
GetAttr(obj, name) ==
    IF obj[1] = "namedtuple" /\ \E i \in 1..Len(obj[3]) : obj[3][i] = name
    THEN Ok(obj[4][CHOOSE i \in 1..Len(obj[3]) : obj[3][i] = name], <<>>)
    ELSE Raise("AttributeError")

\* the first exception among a sequence of outcomes, "" if none
FirstErr(rs) ==
    IF \A i \in 1..Len(rs) : rs[i].err = "" THEN ""
    ELSE rs[CHOOSE i \in 1..Len(rs) :
                rs[i].err # "" /\ \A j \in 1..(i - 1) : rs[j].err = ""].err

\* go_type.zero with the registry reg; depth bounds the nesting
RECURSIVE Zero(_, _, _)
Zero(reg, go_type, depth) ==
    IF depth = 0 THEN Raise("RecursionError")
    ELSE CASE go_type[1] = "GoBool" -> Ok(<<"bool", FALSE>>, <<>>)
      [] go_type[1] \in {"GoUint", "GoInt"} -> Ok(<<"int", 0>>, <<>>)
      [] go_type[1] = "GoFloat" -> Ok(FloatZero, <<>>)
      [] go_type[1] = "GoByteSlice" -> Ok(<<"bytearray", <<>>>>, <<>>)
      [] go_type[1] = "GoString" -> Ok(<<"bytes", <<>>>>, <<>>)
      [] go_type[1] = "GoComplex" -> Ok(<<"complex", FloatZero[2], FloatZero[2]>>, <<>>)
      [] go_type[1] \in {"GoStruct", "GoWireType"} ->
            \* GoStruct.zero: [types[t].zero for (n, t) in fields]
            LET fields == go_type[3]
                make(zs) ==
                    IF FirstErr(zs) # "" THEN Raise(FirstErr(zs))
                    ELSE Ok(<<"namedtuple", go_type[2],
                              [i \in 1..Len(fields) |-> fields[i][1]],
                              [i \in 1..Len(fields) |-> zs[i].val]>>, <<>>)
            IN  make([i \in 1..Len(fields) |->
                        IF fields[i][2] \in DOMAIN reg
                        THEN Zero(reg, reg[fields[i][2]], depth - 1)
                        ELSE Raise("KeyError")])
      [] go_type[1] = "GoArray" ->
            \* GoArray.zero: (types[typeid].zero, ) * length
            IF ~Hashable(go_type[2]) THEN Raise("TypeError")
            ELSE IF ~HasKey(reg, go_type[2]) THEN Raise("KeyError")
            ELSE LET times(z) ==
                        IF z.err # "" THEN z
                        ELSE IF ~Numeric(go_type[3]) THEN Raise("TypeError")
                        ELSE Ok(<<"tuple", [i \in 1..AsInt(go_type[3]) |-> z.val]>>, <<>>)
                 IN  times(Zero(reg, reg[AsInt(go_type[2])], depth - 1))
      [] go_type[1] = "GoSlice" -> Ok(<<"list", <<>>>>, <<>>)
      [] go_type[1] = "GoMap" -> Ok(<<"dict", <<>>>>, <<>>)

\* result[key] = value of a dict held as its (key, value) pairs
DictSet(pairs, key, value) ==
    IF \E i \in 1..Len(pairs) : PyEq(pairs[i][1], key)
    THEN [i \in 1..Len(pairs) |->
            IF PyEq(pairs[i][1], key) THEN <<pairs[i][1], value>> ELSE pairs[i]]
    ELSE Append(pairs, <<key, value>>)

RECURSIVE Decode(_, _, _)

Loader_decode_value_IntIfMissing(reg, typeid, buf) ==
    IF ~Hashable(typeid) THEN Raise("TypeError")
    ELSE IF ~HasKey(reg, typeid) THEN Decode(reg, reg[INT], buf)
    ELSE Decode(reg, reg[AsInt(typeid)], buf)

\* Loader.decode_value
Loader_decode_value(reg, typeid, buf) ==
    IF ~Hashable(typeid) THEN Raise("TypeError")
    ELSE IF ~HasKey(reg, typeid) THEN Raise("NotImplementedError")
    ELSE Decode(reg, reg[AsInt(typeid)], buf)

\* the loop of GoStruct.decode; values[i] is the value read for field i,
\* <<"unset">> while the body has not named it
RECURSIVE StructFields(_, _, _, _, _)
StructFields(reg, fields, buf, field_id, values) ==
    LET field(d) ==
            IF d.err # "" THEN d
            ELSE IF d.val = 0 THEN Ok(values, d.buf)
            ELSE IF field_id + d.val >= Len(fields) THEN Raise("IndexError")
            ELSE IF fields[field_id + d.val + 1][2] \notin DOMAIN reg
                THEN Raise("KeyError")
            ELSE LET set(v) ==
                        IF v.err # "" THEN v
                        ELSE StructFields(reg, fields, v.buf, field_id + d.val,
                                          [values EXCEPT ![field_id + d.val + 1] = v.val])
                 IN  set(Decode(reg, reg[fields[field_id + d.val + 1][2]], d.buf))
    IN  field(Loader_GoUint_decode(buf))

GoStruct_decode_FromZero(reg, go_type, buf) ==
    LET fields == go_type[3]
        replace(r) ==
            IF r.err # "" THEN r
            ELSE LET make(z) ==
                        IF z.err # "" THEN z
                        ELSE Ok(<<"namedtuple", z.val[2], z.val[3],
                                  [i \in 1..Len(fields) |->
                                      IF r.val[i] = <<"unset">> THEN z.val[4][i]
                                      ELSE r.val[i]]>>,
                                r.buf)
                 IN  make(Zero(reg, go_type, MaxDepth))
    IN  replace(StructFields(reg, fields, buf, 0, [i \in 1..Len(fields) |-> <<"unset">>]))

\* GoStruct.decode: self.zero._replace(**values)
GoStruct_decode(reg, go_type, buf) ==
    LET fields == go_type[3]
        replace(r) ==
            IF r.err # "" THEN r
            ELSE LET make(z) ==
                        IF z.err # "" THEN z
                        ELSE Ok(<<"namedtuple", z.val[2], z.val[3],
                                  [i \in 1..Len(fields) |->
                                      IF r.val[i] = <<"unset">> THEN z.val[4][i]
                                      ELSE r.val[i]]>>,
                                r.buf)
                 IN  make(Zero(reg, go_type, MaxDepth))
    IN  replace(StructFields(reg, fields, buf, -1, [i \in 1..Len(fields) |-> <<"unset">>]))

\* raise NotImplementedError("cannot handle %s" % wire_type): the operator %
\* takes a tuple on its right as the arguments of the format, and the
\* format has one
CannotHandle(wire_type) ==
    IF wire_type[1] \in {"tuple", "namedtuple"} /\ Len(wire_type[Len(wire_type)]) # 1
    THEN Raise("TypeError")
    ELSE Raise("NotImplementedError")

\* wire_type.<sub> != types[sub_typeid].zero
SubTypeSet(reg, wire_type, sub, sub_typeid) ==
    LET differs(z) ==
            IF z.err # "" THEN z
            ELSE Ok(~PyEq(GetAttr(wire_type, sub).val, z.val), <<>>)
    IN  differs(IF sub_typeid \in DOMAIN reg THEN Zero(reg, reg[sub_typeid], MaxDepth)
                ELSE Raise("KeyError"))

\* GoArray(...), GoSlice(...), GoMap(...) or GoStruct(...) of the arguments
\* rs, evaluated in order: the first exception among them, or the decoder
Construct(tag, rs, buf) ==
    IF FirstErr(rs) # "" THEN Raise(FirstErr(rs))
    ELSE Ok(<<tag>> \o [i \in 1..Len(rs) |-> rs[i].val], buf)

\* GoWireType.decode
GoWireType_decode(reg, go_type, buf) ==
    LET resolve(w) ==
            LET ArrayT == GetAttr(w.val, "ArrayT").val
                SliceT == GetAttr(w.val, "SliceT").val
                MapT == GetAttr(w.val, "MapT").val
                map(m) ==
                    IF m.err # "" THEN m
                    ELSE IF m.val
                        THEN Construct("GoMap",
                                       <<GetAttr(MapT, "Key"), GetAttr(MapT, "Elem")>>,
                                       w.buf)
                    ELSE CannotHandle(w.val)
                slice(sl) ==
                    IF sl.err # "" THEN sl
                    ELSE IF sl.val
                        THEN Construct("GoSlice", <<GetAttr(SliceT, "Elem")>>, w.buf)
                    ELSE map(SubTypeSet(reg, w.val, "MapT", MAP_TYPE))
                array(a) ==
                    IF a.err # "" THEN a
                    ELSE IF a.val
                        THEN Construct("GoArray",
                                       <<GetAttr(ArrayT, "Elem"), GetAttr(ArrayT, "Len")>>,
                                       w.buf)
                    ELSE slice(SubTypeSet(reg, w.val, "SliceT", SLICE_TYPE))
            IN  IF w.err # "" THEN w
                ELSE array(SubTypeSet(reg, w.val, "ArrayT", ARRAY_TYPE))
    IN  resolve(GoStruct_decode(reg, go_type, buf))

\* obj.a.b
GetAttr2(obj, a, b) ==
    LET inner(x) == IF x.err # "" THEN x ELSE GetAttr(x.val, b)
    IN  inner(GetAttr(obj, a))

\* x.decode('utf-8') of a value x: bytes and bytearray have the method
DecodeUtf8(x) ==
    IF x[1] \in {"bytes", "bytearray"} THEN BytesDecodeUtf8(x[2], <<>>)
    ELSE Raise("AttributeError")

\* [(f.Name.decode('utf-8'), f.Id) for f in Field]
StructTFields(Field) ==
    IF Field[1] \notin {"list", "tuple", "bytes", "bytearray"} THEN Raise("TypeError")
    ELSE IF Field[1] \in {"bytes", "bytearray"}
        \* the elements of bytes are integers, which have no Name
        THEN IF Field[2] = <<>> THEN Ok(<<>>, <<>>) ELSE Raise("AttributeError")
    ELSE LET pair(n, fid) ==
                IF n.err # "" THEN n
                ELSE IF fid.err # "" THEN fid
                ELSE Ok(<<n.val, fid.val>>, <<>>)
             name(n) == IF n.err # "" THEN n ELSE DecodeUtf8(n.val)
             list(rs) ==
                IF FirstErr(rs) # "" THEN Raise(FirstErr(rs))
                ELSE Ok([i \in 1..Len(rs) |-> rs[i].val], <<>>)
         IN  list([i \in 1..Len(Field[2]) |->
                    pair(name(GetAttr(Field[2][i], "Name")), GetAttr(Field[2][i], "Id"))])

\* GoWireType.decode of types.py, its loader one whose registry is reg; the
\* decoders it returns carry their type id first
Types_GoWireType_decode(reg, go_type, buf) ==
    LET resolve(w) ==
            LET ArrayT == GetAttr(w.val, "ArrayT").val
                SliceT == GetAttr(w.val, "SliceT").val
                StructT == GetAttr(w.val, "StructT").val
                MapT == GetAttr(w.val, "MapT").val
                name(n) == IF n.err # "" THEN n ELSE DecodeUtf8(n.val)
                fields(f) == IF f.err # "" THEN f ELSE StructTFields(f.val)
                map(m) ==
                    IF m.err # "" THEN m
                    ELSE IF m.val
                        THEN Construct("types.GoMap",
                                       <<GetAttr2(MapT, "CommonType", "Id"),
                                         GetAttr(MapT, "Key"), GetAttr(MapT, "Elem")>>,
                                       w.buf)
                    ELSE CannotHandle(w.val)
                struct(st) ==
                    IF st.err # "" THEN st
                    ELSE IF st.val
                        THEN Construct("types.GoStruct",
                                       <<GetAttr2(StructT, "CommonType", "Id"),
                                         name(GetAttr2(StructT, "CommonType", "Name")),
                                         fields(GetAttr(StructT, "Field"))>>,
                                       w.buf)
                    ELSE map(SubTypeSet(reg, w.val, "MapT", MAP_TYPE))
                slice(sl) ==
                    IF sl.err # "" THEN sl
                    ELSE IF sl.val
                        THEN Construct("types.GoSlice",
                                       <<GetAttr2(SliceT, "CommonType", "Id"),
                                         GetAttr(SliceT, "Elem")>>,
                                       w.buf)
                    ELSE struct(SubTypeSet(reg, w.val, "StructT", STRUCT_TYPE))
                array(a) ==
                    IF a.err # "" THEN a
                    ELSE IF a.val
                        THEN Construct("types.GoArray",
                                       <<GetAttr2(ArrayT, "CommonType", "Id"),
                                         GetAttr(ArrayT, "Elem"), GetAttr(ArrayT, "Len")>>,
                                       w.buf)
                    ELSE slice(SubTypeSet(reg, w.val, "SliceT", SLICE_TYPE))
            IN  IF w.err # "" THEN w
                ELSE array(SubTypeSet(reg, w.val, "ArrayT", ARRAY_TYPE))
    IN  resolve(GoStruct_decode(reg, go_type, buf))

\* the loops "for i in range(count): value, buf = decode_value(typeid, buf)"
\* of GoArray.decode and GoSlice.decode
RECURSIVE Elements(_, _, _, _, _)
Elements(reg, typeid, buf, count, result) ==
    IF count <= 0 THEN Ok(result, buf)
    ELSE LET append(v) ==
                IF v.err # "" THEN v
                ELSE Elements(reg, typeid, v.buf, count - 1, Append(result, v.val))
         IN  append(Loader_decode_value(reg, typeid, buf))

GoArray_decode_NoAssert(reg, go_type, buf) ==
    LET tuple(r) == IF r.err # "" THEN r ELSE Ok(<<"tuple", r.val>>, r.buf)
        elements(c) ==
            IF c.err # "" THEN c
            ELSE tuple(Elements(reg, go_type[2], c.buf, c.val, <<>>))
    IN  elements(Loader_GoUint_decode(buf))

GoArray_decode(reg, go_type, buf) ==
    LET tuple(r) == IF r.err # "" THEN r ELSE Ok(<<"tuple", r.val>>, r.buf)
        elements(c) ==
            IF c.err # "" THEN c
            ELSE IF ~PyEq(<<"int", c.val>>, go_type[3]) THEN Raise("AssertionError")
            ELSE tuple(Elements(reg, go_type[2], c.buf, c.val, <<>>))
    IN  elements(Loader_GoUint_decode(buf))

GoSlice_decode(reg, go_type, buf) ==
    LET list(r) == IF r.err # "" THEN r ELSE Ok(<<"list", r.val>>, r.buf)
        elements(c) ==
            IF c.err # "" THEN c
            ELSE list(Elements(reg, go_type[2], c.buf, c.val, <<>>))
    IN  elements(Loader_GoUint_decode(buf))

\* the loop of GoMap.decode
RECURSIVE MapEntries(_, _, _, _, _)
MapEntries(reg, go_type, buf, count, result) ==
    IF count <= 0 THEN Ok(result, buf)
    ELSE LET value(k) ==
                IF k.err # "" THEN k
                ELSE LET set(v) ==
                            IF v.err # "" THEN v
                            ELSE IF ~Hashable(k.val) THEN Raise("TypeError")
                            ELSE MapEntries(reg, go_type, v.buf, count - 1,
                                            DictSet(result, k.val, v.val))
                     IN  set(Loader_decode_value(reg, go_type[3], k.buf))
         IN  value(Loader_decode_value(reg, go_type[2], buf))

GoMap_decode(reg, go_type, buf) ==
    LET dict(r) == IF r.err # "" THEN r ELSE Ok(<<"dict", r.val>>, r.buf)
        entries(c) ==
            IF c.err # "" THEN c
            ELSE dict(MapEntries(reg, go_type, c.buf, c.val, <<>>))
    IN  entries(Loader_GoUint_decode(buf))

\* go_type.decode(buf)
Decode(reg, go_type, buf) ==
    LET int(r) == IF r.err # "" THEN r ELSE Ok(<<"int", r.val>>, r.buf)
    IN  CASE go_type[1] = "GoBool" -> Loader_GoBool_decode(buf)
          [] go_type[1] = "GoUint" -> int(Loader_GoUint_decode(buf))
          [] go_type[1] = "GoInt" -> int(Loader_GoInt_decode(buf))
          [] go_type[1] = "GoFloat" -> Loader_GoFloat_decode(buf)
          [] go_type[1] = "GoByteSlice" -> Loader_GoByteSlice_decode(buf)
          [] go_type[1] = "GoString" -> Loader_GoString_decode(buf)
          [] go_type[1] = "GoComplex" -> Loader_GoComplex_decode(buf)
          [] go_type[1] = "GoStruct" -> GoStruct_decode(reg, go_type, buf)
          [] go_type[1] = "GoWireType" -> GoWireType_decode(reg, go_type, buf)
          [] go_type[1] = "GoArray" -> GoArray_decode(reg, go_type, buf)
          [] go_type[1] = "GoSlice" -> GoSlice_decode(reg, go_type, buf)
          [] go_type[1] = "GoMap" -> GoMap_decode(reg, go_type, buf)

----------------------------------------------------------------------------
(* pygob/loader.py: Loader *)

common_type == <<"GoStruct", "CommonType", <<<<"Name", STRING_>>, <<"Id", INT>>>>>>

array_type ==
    <<"GoStruct", "ArrayType",
      <<<<"CommonType", COMMON_TYPE>>, <<"Elem", INT>>, <<"Len", INT>>>>>>

slice_type ==
    <<"GoStruct", "SliceType", <<<<"CommonType", COMMON_TYPE>>, <<"Elem", INT>>>>>>

struct_type ==
    <<"GoStruct", "StructType", <<<<"CommonType", COMMON_TYPE>>, <<"Field", INT>>>>>>

field_type == <<"GoStruct", "FieldType", <<<<"Name", STRING_>>, <<"Id", INT>>>>>>

map_type ==
    <<"GoStruct", "MapType",
      <<<<"CommonType", COMMON_TYPE>>, <<"Key", INT>>, <<"Elem", INT>>>>>>

wire_type ==
    <<"GoWireType", "WireType",
      <<<<"ArrayT", ARRAY_TYPE>>, <<"SliceT", SLICE_TYPE>>,
        <<"StructT", STRUCT_TYPE>>, <<"MapT", MAP_TYPE>>>>>>

\* Loader.__init__: self.types
Loader_init ==
    (INT :> <<"GoInt">>) @@ (UINT :> <<"GoUint">>) @@ (BOOL :> <<"GoBool">>)
    @@ (FLOAT :> <<"GoFloat">>) @@ (BYTE_SLICE :> <<"GoByteSlice">>)
    @@ (STRING_ :> <<"GoString">>) @@ (COMPLEX :> <<"GoComplex">>)
    @@ (WIRE_TYPE :> wire_type) @@ (ARRAY_TYPE :> array_type)
    @@ (COMMON_TYPE :> common_type) @@ (SLICE_TYPE :> slice_type)
    @@ (STRUCT_TYPE :> struct_type) @@ (FIELD_TYPE :> field_type)
    @@ (MAP_TYPE :> map_type)

SetItem_KeepFirst(reg, key, go_type) ==
    [k \in DOMAIN reg \cup {key} |-> IF k \in DOMAIN reg THEN reg[k] ELSE go_type]

\* self.types[key] = go_type
SetItem(reg, key, go_type) ==
    [k \in DOMAIN reg \cup {key} |-> IF k = key THEN go_type ELSE reg[k]]

\* what Loader.load leaves: the registry, the value returned or the
\* exception raised, and the segments read
Outcome(reg, r, log) == [types |-> reg, res |-> r, segs |-> log]

\* Loader.load.  log records, for each segment whose processing ended,
\* <<length, typeid, n>>: the length and type id read, and the number n of
\* bytes by which the buffer moved from the end of the length to the end
\* of the descriptor or value
RECURSIVE Loader_load_from(_, _, _)
Loader_load_from(reg, buf, log) ==
    LET typeid(l) ==
            LET value(t) ==
                    LET check(v) ==
                            IF v.err # "" THEN Outcome(reg, v, log)
                            ELSE IF v.buf # <<>>
                                THEN Outcome(reg, Raise("AssertionError"),
                                             Append(log, <<l.val, t.val,
                                                           Len(l.buf) - Len(v.buf)>>))
                            ELSE Outcome(reg, Ok(v.val, <<>>),
                                         Append(log, <<l.val, t.val,
                                                       Len(l.buf) - Len(v.buf)>>))
                        register(c) ==
                            IF c.err # "" THEN Outcome(reg, c, log)
                            ELSE Loader_load_from(
                                    SetItem(reg, 0 - t.val, c.val), c.buf,
                                    Append(log, <<l.val, t.val, Len(l.buf) - Len(c.buf)>>))
                    IN  IF t.err # "" THEN Outcome(reg, t, log)
                        ELSE IF t.val > 0
                            THEN check(Loader_decode_value(reg, <<"int", t.val>>,
                                                           Drop(t.buf, 1)))
                        ELSE register(Loader_decode_value(reg, <<"int", WIRE_TYPE>>, t.buf))
            IN  IF l.err # "" THEN Outcome(reg, l, log)
                ELSE value(Loader_GoInt_decode(l.buf))
    IN  typeid(Loader_GoUint_decode(buf))

Loader_load_CutAtLength(reg, buf) ==
    LET cut(l) ==
            IF l.err # "" THEN Loader_load_from(reg, buf, <<>>)
            ELSE Loader_load_from(reg, Take(buf, (Len(buf) - Len(l.buf)) + l.val), <<>>)
    IN  cut(Loader_GoUint_decode(buf))

Loader_load(reg, buf) == Loader_load_from(reg, buf, <<>>)

\* Loader.load_all: messages are read as Loader.load reads its one message
\* until the buffer is empty, and the value of each is yielded.  res is the
\* list of the values yielded, or what was raised.  fresh holds at the
\* start of a message, where an empty buffer ends the iteration.
RECURSIVE Loader_load_all_from(_, _, _, _, _)
Loader_load_all_from(reg, buf, log, values, fresh) ==
    IF buf = <<>> /\ fresh THEN Outcome(reg, Ok(<<"list", values>>, <<>>), log)
    ELSE
    LET typeid(l) ==
            LET value(t) ==
                    LET yield(v) ==
                            IF v.err # "" THEN Outcome(reg, v, log)
                            ELSE Loader_load_all_from(
                                    reg, v.buf,
                                    Append(log, <<l.val, t.val, Len(l.buf) - Len(v.buf)>>),
                                    Append(values, v.val), TRUE)
                        register(c) ==
                            IF c.err # "" THEN Outcome(reg, c, log)
                            ELSE Loader_load_all_from(
                                    SetItem(reg, 0 - t.val, c.val), c.buf,
                                    Append(log, <<l.val, t.val, Len(l.buf) - Len(c.buf)>>),
                                    values, FALSE)
                    IN  IF t.err # "" THEN Outcome(reg, t, log)
                        ELSE IF t.val > 0
                            THEN yield(Loader_decode_value(reg, <<"int", t.val>>,
                                                           Drop(t.buf, 1)))
                        ELSE register(Loader_decode_value(reg, <<"int", WIRE_TYPE>>, t.buf))
            IN  IF l.err # "" THEN Outcome(reg, l, log)
                ELSE value(Loader_GoInt_decode(l.buf))
    IN  typeid(Loader_GoUint_decode(buf))

----------------------------------------------------------------------------
(* pygob/__init__.py: the module's own decode functions and load *)

\* the statements of GoUint.decode of loader.py
decode_uint(buf) == Loader_GoUint_decode(buf)

decode_int(buf) ==
    LET halve(r) ==
            IF r.err # "" THEN r
            ELSE IF r.val % 2 = 1 THEN Ok(BitNot(r.val \div 2), r.buf)
            ELSE Ok(r.val \div 2, r.buf)
    IN  halve(decode_uint(buf))

\* the values of the enum TypeID
TypeID == (1..8) \cup {16, 17, 18, 19, 20, 21, 23}

decode_value(typeid, buf) ==
    LET int(r) == IF r.err # "" THEN r ELSE Ok(<<"int", r.val>>, r.buf)
        bool(r) == IF r.err # "" THEN r ELSE Ok(<<"bool", r.val = 1>>, r.buf)
        float(r) == IF r.err # "" THEN r ELSE Ok(<<"float", PackLReversed(r.val)>>, r.buf)
        cut(tag, r) ==
            IF r.err # "" THEN r
            ELSE Ok(<<tag, Take(r.buf, r.val)>>, Drop(r.buf, r.val))
    IN  CASE typeid = 2 -> int(decode_int(buf))
          [] typeid = 3 -> int(decode_uint(buf))
          [] typeid = 1 -> bool(decode_uint(buf))
          [] typeid = 4 -> float(decode_uint(buf))
          [] typeid = 5 -> cut("bytearray", decode_uint(buf))
          [] typeid = 6 -> cut("bytes", decode_uint(buf))
          [] OTHER -> Raise("NotImplementedError")

\* load(buf) of pygob/__init__.py
load(buf) ==
    LET typeid(l) ==
            LET value(t) ==
                    LET return(v) == IF v.err # "" THEN v ELSE Ok(v.val, <<>>)
                    IN  IF t.err # "" THEN t
                        ELSE IF t.val < 0 THEN Raise("NotImplementedError")
                        ELSE IF t.val \notin TypeID THEN Raise("ValueError")
                        ELSE return(decode_value(t.val, Drop(t.buf, 1)))
            IN  IF l.err # "" THEN l
                ELSE IF Len(l.buf) # l.val THEN Raise("AssertionError")
                ELSE value(decode_int(l.buf))
    IN  typeid(decode_uint(buf))

----------------------------------------------------------------------------
(* The varint codec on its own: an integer is drawn, encoded, and the       *)
(* encoding decoded.                                                        *)

\* Every integer up to MaxSmallInt is drawn, and the integers next to the
\* powers of 256 the encoding changes length at.
MaxSmallInt == 300

Pow256(k) == IF k = 0 THEN 1 ELSE IF k = 1 THEN 256 ELSE IF k = 2 THEN 65536 ELSE 16777216

UintEdges ==
    {Pow256(k) + d : k \in 1..3, d \in {-1, 0, 1}}
        \cup {Pow256(3) * m + d : m \in {2, 64, 127}, d \in {-1, 0, 1, 255}}

UintInputs == (0..MaxSmallInt) \cup UintEdges

\* |n| < 2^30, so that the doubled value is a 32-bit integer
IntEdges ==
    {Pow256(k) \div 2 + d : k \in 1..3, d \in {-1, 0, 1}}
        \cup {Pow256(3) * 63 + d : d \in {-1, 0, 1, 255}}

IntInputs ==
    LET pos == (0..MaxSmallInt) \cup IntEdges
    IN  pos \cup {0 - n : n \in pos} \cup {BitNot(n) : n \in pos}

InitVarint ==
    /\ pc = "start"
    /\ val \in {<<"uint", n>> : n \in UintInputs} \cup {<<"int", n>> : n \in IntInputs}
    /\ aux = <<>>
    /\ wire = <<>>
    /\ res = Raise("")
    /\ segs = <<>>
    /\ types = <<>>

UintEncode ==
    /\ pc = "start"
    /\ val[1] = "uint"
    /\ wire' = GoUint_encode(val[2]).bytes
    /\ pc' = "uint_encoded"
    /\ UNCHANGED <<types, val, aux, res, segs>>

UintDecode ==
    /\ pc = "uint_encoded"
    /\ res' = GoUint_decode(wire)
    /\ pc' = "uint_decoded"
    /\ UNCHANGED <<types, val, aux, wire, segs>>

IntEncode ==
    /\ pc = "start"
    /\ val[1] = "int"
    /\ wire' = GoInt_encode(val[2]).bytes
    /\ pc' = "int_encoded"
    /\ UNCHANGED <<types, val, aux, res, segs>>

IntDecode ==
    /\ pc = "int_encoded"
    /\ res' = GoInt_decode(wire)
    /\ pc' = "int_decoded"
    /\ UNCHANGED <<types, val, aux, wire, segs>>

NextVarint == UintEncode \/ UintDecode \/ IntEncode \/ IntDecode

SpecVarint == InitVarint /\ [][NextVarint]_vars

----------------------------------------------------------------------------
(* Encoding one value and decoding the message: a value is drawn, dumped,   *)
(* and the message, with the bytes of aux after it, is loaded by a fresh    *)
(* Loader or by the module's load.                                          *)

\* byte strings up to this length are dumped, and texts up to MaxStrLen
MaxBytesLen == 3
MaxStrLen == 2
\* one byte string long enough for a two-byte count
LongLen == 130

ByteAlphabet == {0, 97, 255}

BytesUpTo(n) == UNION {[1..k -> ByteAlphabet] : k \in 0..n}

\* a, e-acute, alpha, the euro sign, an emoji: 1 to 4 bytes of UTF-8
CodePoints == {97, 233, 945, 8364, 128512}

StrInputs == UNION {[1..k -> CodePoints] : k \in 0..MaxStrLen}

\* 0.0, -0.0, 1.0, 1.25, -2.0, 3.0, inf, -inf, nan, 2^-1022 * 2^-30
FloatInputs ==
    {<<0, 0, 0, 0, 0, 0, a[1], a[2]>> :
        a \in {<<0, 0>>, <<0, 128>>, <<240, 63>>, <<244, 63>>, <<0, 192>>,
               <<8, 64>>, <<240, 127>>, <<240, 255>>, <<248, 127>>}}
        \cup {<<0, 0, 0, 0, 64, 0, 0, 0>>}

DumpInputs ==
    {<<"bool", b>> : b \in BOOLEAN}
        \cup {<<"int", n>> : n \in IntInputs}
        \cup {<<"float", f>> : f \in FloatInputs}
        \cup {<<"complex", re, im>> : re \in FloatInputs, im \in FloatInputs}
        \cup {<<"bytes", b>> : b \in BytesUpTo(MaxBytesLen) \cup {[i \in 1..LongLen |-> 97]}}
        \cup {<<"str", t>> : t \in StrInputs}
        \cup {None, <<"list", <<>>>>}

\* what follows the message: nothing, one byte, a second message
Trailing == {<<>>, <<0>>, <<3, 4, 0, 2>>}

InitDump ==
    /\ pc = "start"
    /\ val \in DumpInputs
    /\ aux \in Trailing
    /\ wire = <<>>
    /\ res = Raise("")
    /\ segs = <<>>
    /\ types = Loader_init

\* pygob.dump(val)
Dump ==
    /\ pc = "start"
    /\ LET return(d) ==
            /\ wire' = d.bytes
            /\ res' = Raise(d.err)
            /\ pc' = IF d.err = "" THEN "dumped" ELSE "dump_raised"
       IN  return(Dumper_dump(val))
    /\ UNCHANGED <<types, val, aux, segs>>

\* Loader().load(wire + aux)
LoadDumped ==
    /\ pc = "dumped"
    /\ LET return(o) ==
            /\ types' = o.types
            /\ res' = o.res
            /\ segs' = o.segs
       IN  return(Loader_load(types, wire \o aux))
    /\ pc' = "loaded"
    /\ UNCHANGED <<val, aux, wire>>

\* pygob.load(wire + aux), the load of pygob/__init__.py
ModuleLoadDumped ==
    /\ pc = "dumped"
    /\ res' = load(wire \o aux)
    /\ pc' = "module_loaded"
    /\ UNCHANGED <<types, val, aux, wire, segs>>

\* GoUint.decode, GoByteSlice.decode or GoString.decode of types.py, called
\* with the encoding of val cut before its end
DecodeTruncated ==
    /\ pc = "start"
    /\ val[1] \in {"int", "bytes", "str"}
    /\ val[1] = "int" => val[2] >= 0
    /\ LET cut(enc) ==
            \E k \in 0..(Len(enc) - 1) :
                /\ wire' = Take(enc, k)
                /\ res' = CASE val[1] = "int" -> GoUint_decode(Take(enc, k))
                             [] val[1] = "bytes" -> GoByteSlice_decode(Take(enc, k))
                             [] val[1] = "str" -> GoString_decode(Take(enc, k))
       IN  cut(CASE val[1] = "int" -> GoUint_encode(val[2]).bytes
                 [] val[1] = "bytes" -> GoByteSlice_encode(val[2]).bytes
                 [] val[1] = "str" -> GoString_encode(val[2]).bytes)
    /\ pc' = "truncated"
    /\ UNCHANGED <<types, val, aux, segs>>

NextDump == Dump \/ LoadDumped \/ ModuleLoadDumped \/ DecodeTruncated

SpecDump == InitDump /\ [][NextDump]_vars

----------------------------------------------------------------------------
(* What a sender writes: struct bodies, descriptors and segments, built    *)
(* with the encoders of types.py.                                          *)

UintBytes(n) == GoUint_encode(n).bytes

IntBytes(n) == GoInt_encode(n).bytes

\* a struct body: fs[i] is the encoding of field i, or <<>> if the body
\* omits the field; every field sent is preceded by its distance from the
\* last field sent, and a zero ends the body
RECURSIVE FieldDeltas(_, _, _)
FieldDeltas(fs, i, last) ==
    IF i > Len(fs) THEN <<0>>
    ELSE IF fs[i] = <<>> THEN FieldDeltas(fs, i + 1, last)
    ELSE UintBytes(i - last) \o fs[i] \o FieldDeltas(fs, i + 1, i)

StructBody(fs) == FieldDeltas(fs, 1, 0)

\* an integer field, omitted when zero
IntField(n) == IF n = 0 THEN <<>> ELSE IntBytes(n)

\* a string field, omitted when empty
StringField(b) == IF b = <<>> THEN <<>> ELSE UintBytes(Len(b)) \o b

CommonTypeBody(name, id) == StructBody(<<StringField(name), IntField(id)>>)

\* the wire_type descriptors of an array, a slice, a map and a struct type
ArrayDesc(id, elem, length) ==
    StructBody(<<StructBody(<<CommonTypeBody(<<>>, id), IntField(elem), IntField(length)>>),
                 <<>>, <<>>, <<>>>>)

SliceDesc(id, elem) ==
    StructBody(<<<<>>, StructBody(<<CommonTypeBody(<<>>, id), IntField(elem)>>),
                 <<>>, <<>>>>)

MapDesc(id, key, elem) ==
    StructBody(<<<<>>, <<>>, <<>>,
                 StructBody(<<CommonTypeBody(<<>>, id), IntField(key), IntField(elem)>>)>>)

\* a descriptor that sets both ArrayT and SliceT
ArrayAndSliceDesc(id, elem, length) ==
    StructBody(<<StructBody(<<CommonTypeBody(<<>>, id), IntField(elem), IntField(length)>>),
                 StructBody(<<CommonTypeBody(<<>>, id), IntField(elem)>>),
                 <<>>, <<>>>>)

\* fields is a sequence of <<name bytes, type id>>
RECURSIVE FieldTypeBodies(_)
FieldTypeBodies(fields) ==
    IF fields = <<>> THEN <<>>
    ELSE StructBody(<<StringField(fields[1][1]), IntField(fields[1][2])>>)
            \o FieldTypeBodies(Tail(fields))

StructDesc(id, name, fields) ==
    StructBody(<<<<>>, <<>>,
                 StructBody(<<CommonTypeBody(name, id),
                              UintBytes(Len(fields)) \o FieldTypeBodies(fields)>>),
                 <<>>>>)

\* a descriptor with no sub-field set
EmptyDesc == StructBody(<<<<>>, <<>>, <<>>, <<>>>>)

\* a segment: its length, then the body
Segment(body) == UintBytes(Len(body)) \o body

\* the segment registering descriptor desc under id
RegSegment(id, desc) == Segment(IntBytes(0 - id) \o desc)

\* the segment carrying a value of a type that is not a struct: a zero byte
\* precedes the value
ValueSegment(id, payload) == Segment(IntBytes(id) \o <<0>> \o payload)

\* the segment carrying a struct: the field deltas follow the type id
StructSegment(id, body) == Segment(IntBytes(id) \o body)

----------------------------------------------------------------------------
(* A Loader session: one Loader, constructed once, whose load is called    *)
(* with one input after another.  The registry outlives each call, also a  *)
(* call that raises.                                                       *)

\* the id a sender gives its own type; 66 is an element type it names
\* without registering it
CustomIds == {65}

\* arrays are registered with length 0 and with this length
MaxArrayLen == 2

StructTids == {ARRAY_TYPE, COMMON_TYPE, SLICE_TYPE, STRUCT_TYPE, FIELD_TYPE, MAP_TYPE}

\* "P", "X", "Y"
NameP == <<80>>
PointFields == <<<<<<88>>, INT>>, <<<<89>>, INT>>>>

Descs(id) ==
    {ArrayDesc(id, e, n) : e \in {INT, 66}, n \in {0, MaxArrayLen}}
        \cup {SliceDesc(id, INT), MapDesc(id, INT, BOOL),
              StructDesc(id, NameP, PointFields), EmptyDesc,
              ArrayAndSliceDesc(id, INT, MaxArrayLen)}

RegStreams == UNION {{RegSegment(id, d) : d \in Descs(id)} : id \in CustomIds}

\* no elements; the integers 17 and 42; one integer 3; the pair 7: True;
\* the fields X = 17 and Y = 42
Payloads == {<<0>>, <<2, 34, 84>>, <<1, 6>>, <<1, 14, 1>>, <<1, 34, 1, 84, 0>>}

\* 67 is never registered; the last stream carries a CommonType whose
\* first field delta is 3
ValueStreams ==
    {ValueSegment(id, p) : id \in CustomIds \cup {INT, 67}, p \in Payloads}
        \cup {ValueSegment(id, <<0>>) : id \in StructTids}
        \cup {ValueSegment(COMMON_TYPE, <<3, 2, 0>>)}

StructStreams ==
    {StructSegment(id, <<0>>) : id \in StructTids}
        \cup {StructSegment(COMMON_TYPE, CommonTypeBody(NameP, 7)),
              StructSegment(65, <<1, 34, 1, 84, 0>>)}

RegThenValueStreams ==
    UNION {{RegSegment(id, d) \o ValueSegment(id, <<2, 34, 84>>) : d \in Descs(id)} :
            id \in CustomIds}

\* tests/test_load.py: test_int_matrix, test_point_struct
IntMatrixStream ==
    <<15, 255, 141, 1, 1, 2, 255, 142, 0, 1, 255, 140, 1, 6, 0, 0, 14, 255,
      139, 1, 1, 2, 255, 140, 0, 1, 4, 1, 6, 0, 0, 16, 255, 142, 0, 3, 3, 0,
      2, 4, 3, 6, 8, 10, 3, 12, 14, 16>>

PointStructStream ==
    <<31, 255, 147, 3, 1, 1, 5, 80, 111, 105, 110, 116, 1, 255, 148, 0, 1, 2,
      1, 1, 88, 1, 4, 0, 1, 1, 89, 1, 4, 0, 0, 0, 7, 255, 148, 1, 34, 1, 84,
      0>>

TestStreams == {IntMatrixStream, PointStructStream}

\* the same stream with its first length byte one more than the segment has
LengthOneMore(b) == [b EXCEPT ![1] = @ + 1]

WrongLengthStreams == {LengthOneMore(b) : b \in TestStreams \cup {<<3, 4, 0, 2>>}}

Streams ==
    RegStreams \cup ValueStreams \cup StructStreams \cup RegThenValueStreams
        \cup TestStreams \cup WrongLengthStreams

InitLoad ==
    /\ pc = "constructed"
    /\ val = None
    /\ aux = <<>>
    /\ wire = <<>>
    /\ res = Raise("")
    /\ segs = <<>>
    /\ types = Loader_init

\* loader.load(b)
Load ==
    \E b \in Streams :
        LET return(o) ==
                /\ wire' = b
                /\ types' = o.types
                /\ res' = o.res
                /\ segs' = o.segs
                /\ pc' = "loaded"
                /\ UNCHANGED <<val, aux>>
        IN  return(Loader_load(types, b))

\* tests/test_load_all.py: test_basic_types, test_custom_type
BasicTypesStreams ==
    {<<3, 4, 0, 2, 3, 4, 0, 4, 3, 4, 0, 6>>,
     <<3, 2, 0, 1, 3, 4, 0, 34, 4, 12, 0, 1, 33>>}

CustomTypeStream ==
    <<31, 255, 131, 3, 1, 1, 5, 80, 111, 105, 110, 116, 1, 255, 132, 0, 1, 2,
      1, 1, 88, 1, 4, 0, 1, 1, 89, 1, 4, 0, 0, 0, 3, 255, 132, 0, 7, 255,
      132, 1, 6, 1, 8, 0>>

\* the test streams; a slice type registered once and sent twice; a stream
\* that ends inside its second message; a stream that ends with a
\* registration
LoadAllStreams ==
    BasicTypesStreams
        \cup {CustomTypeStream,
              RegSegment(65, SliceDesc(65, INT)) \o ValueSegment(65, <<2, 34, 84>>)
                    \o ValueSegment(65, <<1, 6>>),
              <<3, 4, 0, 2, 3, 4>>,
              <<3, 4, 0, 2>> \o RegSegment(65, SliceDesc(65, INT))}

\* list(loader.load_all(b))
LoadAll ==
    \E b \in LoadAllStreams :
        LET return(o) ==
                /\ wire' = b
                /\ types' = o.types
                /\ res' = o.res
                /\ segs' = o.segs
                /\ pc' = "all_loaded"
                /\ UNCHANGED <<val, aux>>
        IN  return(Loader_load_all_from(types, b, <<>>, <<>>, TRUE))

\* a struct descriptor that names no field
StructDescNoField(id) == StructBody(<<<<>>, <<>>, StructBody(<<CommonTypeBody(NameP, id)>>)>>)

\* GoWireType(WIRE_TYPE, 'WireType', loader, fields).decode(d) of types.py,
\* with the fields of the loader's own wire type
DecodeWireType ==
    \E id \in CustomIds :
        \E d \in Descs(id) \cup {StructDescNoField(id)} :
            /\ wire' = d
            /\ res' = Types_GoWireType_decode(types, types[WIRE_TYPE], d)
            /\ pc' = "wire_type_decoded"
            /\ UNCHANGED <<types, val, aux, segs>>

NextLoad == Load \/ DecodeWireType \/ LoadAll

SpecLoad == InitLoad /\ [][NextLoad]_vars

----------------------------------------------------------------------------
(* Decoding a struct body: an ArrayType record is drawn, a sender writes   *)
(* its body, sending or omitting each field that holds its zero value, and *)
(* the array_type decoder of a fresh Loader decodes the body.              *)

\* the fields a sender may send although they hold their zero value
Paths == {"CommonType", "Name", "Id", "Elem", "Len"}

CommonTypeRecord(name, id) ==
    <<"namedtuple", "CommonType", <<"Name", "Id">>, <<<<"bytes", name>>, <<"int", id>>>>>>

ArrayTypeRecord(name, id, elem, length) ==
    <<"namedtuple", "ArrayType", <<"CommonType", "Elem", "Len">>,
      <<CommonTypeRecord(name, id), <<"int", elem>>, <<"int", length>>>>>>

\* the largest Len of the records drawn
MaxLenField == 3

ArrayTypeRecords ==
    {ArrayTypeRecord(name, id, elem, length) :
        name \in {<<>>, <<80>>}, id \in {0, 65, -1}, elem \in {0, INT},
        length \in {0, MaxLenField}}

SentInt(n, keep) == IF n = 0 /\ ~keep THEN <<>> ELSE IntBytes(n)

SentString(b, keep) == IF b = <<>> /\ ~keep THEN <<>> ELSE UintBytes(Len(b)) \o b

\* the body of record r (an ArrayType) when the zero fields in keep are sent
ArrayTypeBody(r, keep) ==
    LET common == r[4][1][4]
        name == common[1][2]
        id == common[2][2]
        commonBody == StructBody(<<SentString(name, "Name" \in keep),
                                   SentInt(id, "Id" \in keep)>>)
    IN  StructBody(<<IF name = <<>> /\ id = 0 /\ "CommonType" \notin keep
                        THEN <<>> ELSE commonBody,
                     SentInt(r[4][2][2], "Elem" \in keep),
                     SentInt(r[4][3][2], "Len" \in keep)>>)

InitStruct ==
    /\ pc = "start"
    /\ val \in ArrayTypeRecords
    /\ aux \in SUBSET Paths
    /\ wire = <<>>
    /\ res = Raise("")
    /\ segs = <<>>
    /\ types = Loader_init

SendStruct ==
    /\ pc = "start"
    /\ wire' = ArrayTypeBody(val, aux)
    /\ pc' = "struct_sent"
    /\ UNCHANGED <<types, val, aux, res, segs>>

\* loader.types[ARRAY_TYPE].decode(wire)
DecodeStruct ==
    /\ pc = "struct_sent"
    /\ res' = Decode(types, types[ARRAY_TYPE], wire)
    /\ pc' = "struct_decoded"
    /\ UNCHANGED <<types, val, aux, wire, segs>>

NextStruct == SendStruct \/ DecodeStruct

SpecStruct == InitStruct /\ [][NextStruct]_vars

----------------------------------------------------------------------------
(* The registry over a session: one Loader loads streams that register     *)
(* types under the id 65, under 0 and under the predefined id BOOL, that   *)
(* register 65 twice, and that carry values; between the loads the zero    *)
(* value of a registered decoder is taken.                                 *)

\* a slice, an array and a map type; a registration that fails; the same
\* id registered twice, then a value; values of ids 65, BOOL and INT;
\* a CommonType with no field sent
KeyStreams ==
    {RegSegment(k, SliceDesc(k, INT)) : k \in {0, BOOL, 65}}
        \cup {RegSegment(65, ArrayDesc(65, BOOL, MaxArrayLen)),
              RegSegment(65, MapDesc(65, INT, BOOL)),
              RegSegment(65, EmptyDesc),
              RegSegment(65, SliceDesc(65, INT)) \o RegSegment(65, MapDesc(65, INT, BOOL))
                    \o ValueSegment(65, <<1, 14, 1>>),
              RegSegment(65, MapDesc(65, INT, BOOL)) \o RegSegment(65, SliceDesc(65, INT))
                    \o ValueSegment(65, <<1, 6>>),
              ValueSegment(COMMON_TYPE, <<0>>)}
        \cup {RegSegment(k, SliceDesc(k, INT)) \o ValueSegment(INT, <<6>>) : k \in {0, BOOL}}
        \cup {ValueSegment(k, p) : k \in {65, BOOL, INT}, p \in {<<1>>, <<1, 6>>, <<1, 14, 1>>}}

\* loader.load(b)
LoadKeyed ==
    \E b \in KeyStreams :
        LET return(o) ==
                /\ wire' = b
                /\ types' = o.types
                /\ res' = o.res
                /\ segs' = o.segs
                /\ pc' = "loaded"
                /\ val' = None
                /\ UNCHANGED aux
        IN  return(Loader_load(types, b))

TakeZero_AtConstruction ==
    \E id \in DOMAIN types :
        /\ val' = <<"int", id>>
        /\ res' = Zero(Loader_init, types[id], MaxDepth)
        /\ pc' = "zero"
        /\ UNCHANGED <<types, aux, wire, segs>>

\* loader.types[id].zero
TakeZero ==
    \E id \in DOMAIN types :
        /\ val' = <<"int", id>>
        /\ res' = Zero(types, types[id], MaxDepth)
        /\ pc' = "zero"
        /\ UNCHANGED <<types, aux, wire, segs>>

NextRegistry == LoadKeyed \/ TakeZero

SpecRegistry == InitLoad /\ [][NextRegistry]_vars

----------------------------------------------------------------------------
(* Claims *)

\* C1: unsigned varint round trip: GoUint.decode(GoUint.encode(n)) is
\* (n, b''), the integer recovered and every byte consumed.
C1_UintRoundTrip == pc = "uint_decoded" => res = Ok(val[2], <<>>)

\* a three-byte body was written and read back
C1_Witness ==
    /\ pc = "uint_decoded"
    /\ val[2] > 65536
    /\ Len(wire) = 4
    /\ res.err = ""

\* the unsigned integer GoInt.encode is said to emit for n
ZigZag(n) == IF n >= 0 THEN 2 * n ELSE (2 * ((0 - n) - 1)) + 1

\* C2: signed varint round trip: GoInt.encode(n) is the unsigned encoding
\* of 2n for n >= 0 and of ((NOT n) << 1) | 1 for n < 0; decoding it yields
\* (n, b''), which is NOT(u >> 1) for an odd unsigned u and u >> 1 for an
\* even one.
C2_IntRoundTrip ==
    /\ pc \in {"int_encoded", "int_decoded"} =>
            wire = GoUint_encode(ZigZag(val[2])).bytes
    /\ pc = "int_decoded" =>
            /\ res = Ok(val[2], <<>>)
            /\ LET u == GoUint_decode(wire).val
               IN  res.val = IF u % 2 = 1 THEN BitNot(u \div 2) ELSE u \div 2

\* a negative integer with a multi-byte encoding was written and read back
C2_Witness ==
    /\ pc = "int_decoded"
    /\ val[2] < -70000
    /\ Len(wire) > 3
    /\ res.val = val[2]

\* the integer a byte string holds, most significant byte first
RECURSIVE BigEndian(_)
BigEndian(s) ==
    IF s = <<>> THEN 0
    ELSE (BigEndian(SubSeq(s, 1, Len(s) - 1)) * 256) + s[Len(s)]

\* C3: varint minimality: GoUint.encode(n) is the single byte n for
\* n < 128; otherwise the byte 256 - L followed by the L bytes of n, most
\* significant first, the first of them not zero (L is the least number of
\* bytes that hold n).
C3_VarintMinimal ==
    pc = "uint_encoded" =>
        LET n == val[2]
            L == Len(wire) - 1
        IN  IF n < 128 THEN wire = <<n>>
            ELSE /\ L \in 1..8
                 /\ wire[1] = 256 - L
                 /\ wire[2] # 0
                 /\ BigEndian(Tail(wire)) = n
                 /\ n >= Pow256(L - 1)

\* a value just past a power of 256 took one more byte
C3_Witness ==
    /\ pc = "uint_encoded"
    /\ val[2] = 65536
    /\ wire = <<253, 1, 0, 0>>

\* the built-in type id the encoder is said to pick for a Python type
BuiltinTid(python_type) ==
    CASE python_type = "bool" -> 1
      [] python_type = "int" -> 2
      [] python_type = "float" -> 4
      [] python_type = "bytes" -> 5
      [] python_type = "str" -> 6
      [] python_type = "complex" -> 7

\* C4: encoder framing: dump(value) is the unsigned varint of len(body)
\* followed by body, and body is the signed varint of the built-in type id,
\* one zero byte, and the primitive encoding of the value; the length
\* prefix equals the number of bytes after it.
C4_DumpFraming ==
    pc = "dumped" =>
        LET l == GoUint_decode(wire)
            t == GoInt_decode(l.buf)
        IN  /\ l.err = ""
            /\ l.val = Len(l.buf)
            /\ wire = GoUint_encode(Len(l.buf)).bytes \o l.buf
            /\ t.err = ""
            /\ t.val = BuiltinTid(val[1])
            /\ l.buf = GoInt_encode(t.val).bytes \o <<0>> \o Dumper_encode(val).bytes

\* a byte string whose message needs a two-byte length prefix was dumped
C4_Witness ==
    /\ pc = "dumped"
    /\ val[1] = "bytes"
    /\ Len(val[2]) >= 128
    /\ wire[1] = 255
    /\ wire[2] = Len(wire) - 2

\* the value a dumped value is said to come back as
Expected(v) == IF v[1] = "str" THEN <<"bytes", StrEncodeUtf8(v[2])>> ELSE v

\* C5: message round trip: Loader.load(Dumper.dump(v)) returns a value
\* equal to v for a boolean, an integer, a byte string and a text (the text
\* as its UTF-8 bytes), the whole message consumed and nothing raised.
C5_MessageRoundTrip ==
    (pc = "loaded" /\ aux = <<>> /\ val[1] \in {"bool", "int", "bytes", "str"}) =>
        /\ res.err = ""
        /\ PyEq(res.val, Expected(val))
        /\ res.buf = <<>>
        /\ Len(segs) = 1
        /\ segs[1][3] = segs[1][1]
        /\ segs[1][3] = Len(wire) - Len(GoUint_encode(segs[1][1]).bytes)

\* a negative integer and a text of multi-byte characters came back
C5_Witness ==
    /\ pc = "loaded"
    /\ aux = <<>>
    /\ \/ val = <<"int", -257>> /\ res.val = <<"int", -257>>
       \/ val = <<"str", <<945, 8364>>>> /\ res.val = <<"bytes", <<206, 177, 226, 130, 172>>>>

\* C6 as stated: load of a message followed by further bytes returns the
\* value of that message and does not fail.
C6_TrailingIgnored ==
    (pc \in {"loaded", "module_loaded"} /\ aux # <<>>
        /\ val[1] \in {"bool", "int", "bytes", "str"}) =>
        res.err = "" /\ PyEq(res.val, Expected(val))

\* C6 as the code has it: a dumped message followed by at least one further
\* byte makes Loader.load, and the module's load, raise AssertionError
\* (the bytes left after the value are "trailing garbage"; the module's
\* load compares the length prefix with the bytes that follow it); Loader.load
\* returns the value exactly when nothing follows the message.
C6_TrailingRejected ==
    /\ (pc \in {"loaded", "module_loaded"} /\ aux # <<>>) =>
            res.err = "AssertionError" /\ res.val = None
    /\ (pc = "loaded" /\ aux = <<>>) => res.err = ""

\* a dumped integer followed by a second message was refused by both loads
C6_Witness ==
    /\ pc \in {"loaded", "module_loaded"}
    /\ val = <<"int", 1>>
    /\ wire = <<3, 4, 0, 2>>
    /\ aux = <<3, 4, 0, 2>>
    /\ res.err = "AssertionError"

\* C7: segment framing: every segment the interpreter processes is confined
\* to its declared length: a registration takes effect only if the
\* descriptor ends where the segment ends, a value is returned only if it
\* ends where its segment ends, and the interpreter goes on exactly past
\* the declared bytes.
C7_SegmentFraming ==
    pc = "loaded" =>
        /\ \A i \in 1..Len(segs) : segs[i][2] <= 0 => segs[i][3] = segs[i][1]
        /\ res.err = "" => \A i \in 1..Len(segs) : segs[i][3] = segs[i][1]

\* C8: the zero byte is skipped if and only if the decoder of the value
\* segment's type id is not a struct: a struct's field deltas are decoded
\* right after the type id (a struct segment whose body is the byte 0
\* decodes to the zero record), a value that is not a struct after one
\* more byte.
C8_ZeroByteSkip ==
    pc = "loaded" =>
        \A id \in DOMAIN types :
            /\ (types[id][1] = "GoStruct" /\ wire = StructSegment(id, <<0>>)) =>
                    res = Ok(Zero(types, types[id], MaxDepth).val, <<>>)
            /\ \A p \in Payloads :
                    (types[id][1] # "GoStruct" /\ wire = ValueSegment(id, p)) =>
                        LET same(v) == (v.err = "" /\ v.buf = <<>>) => res = v
                        IN  same(Decode(types, types[id], p))

\* C9: field-delta idempotence: the bodies of one record that differ only
\* in which zero-valued fields are sent decode to equal records, the record
\* itself: a field no delta names holds the zero value of its type.
C9_FieldDeltaIdempotent ==
    pc = "struct_decoded" =>
        /\ res = Ok(val, <<>>)
        /\ \A keep \in SUBSET Paths :
                Decode(types, types[ARRAY_TYPE], ArrayTypeBody(val, keep)).val = res.val

\* the body that omits every field of the zero record was decoded
C9_Witness ==
    /\ pc = "struct_decoded"
    /\ val = ArrayTypeRecord(<<>>, 0, 0, MaxLenField)
    /\ aux = {}
    /\ wire = <<3, 2 * MaxLenField, 0>>
    /\ res.val = val

\* C10: wire-type resolution: a descriptor with ArrayT set yields
\* Array(Elem, Len), with SliceT set Slice(Elem), with StructT set
\* Struct(name, the fields in order), with MapT set Map(Key, Elem), and
\* with none set decoding fails with NotImplementedError ("cannot
\* handle"), in a registration segment the loader reads and when the wire
\* type decodes the descriptor alone; the stream of test_point_struct
\* decodes to Point(X=17, Y=42).
C10_WireTypeResolution ==
    \A id \in CustomIds :
        /\ pc = "loaded" =>
            /\ \A e \in {INT, 66}, n \in {0, MaxArrayLen} :
                    wire = RegSegment(id, ArrayDesc(id, e, n)) =>
                        /\ id \in DOMAIN types
                        /\ types[id] = <<"GoArray", <<"int", e>>, <<"int", n>>>>
            /\ wire = RegSegment(id, SliceDesc(id, INT)) =>
                    /\ id \in DOMAIN types
                    /\ types[id] = <<"GoSlice", <<"int", INT>>>>
            /\ wire = RegSegment(id, MapDesc(id, INT, BOOL)) =>
                    /\ id \in DOMAIN types
                    /\ types[id] = <<"GoMap", <<"int", INT>>, <<"int", BOOL>>>>
            /\ wire = RegSegment(id, StructDesc(id, NameP, PointFields)) =>
                    /\ id \in DOMAIN types
                    /\ types[id][1] = "GoStruct"
                    /\ types[id] = <<"GoStruct", "P", <<<<"X", INT>>, <<"Y", INT>>>>>>
            /\ wire = RegSegment(id, EmptyDesc) => res.err = "NotImplementedError"
            /\ wire = PointStructStream =>
                    res = Ok(<<"namedtuple", "Point", <<"X", "Y">>,
                               <<<<"int", 17>>, <<"int", 42>>>>>>, <<>>)
        /\ pc = "wire_type_decoded" =>
            /\ \A e \in {INT, 66}, n \in {0, MaxArrayLen} :
                    wire = ArrayDesc(id, e, n) =>
                        res.val = <<"types.GoArray", <<"int", id>>, <<"int", e>>, <<"int", n>>>>
            /\ wire = SliceDesc(id, INT) =>
                    res.val = <<"types.GoSlice", <<"int", id>>, <<"int", INT>>>>
            /\ wire = MapDesc(id, INT, BOOL) =>
                    res.val = <<"types.GoMap", <<"int", id>>, <<"int", INT>>, <<"int", BOOL>>>>
            /\ wire = StructDesc(id, NameP, PointFields) =>
                    res.val = <<"types.GoStruct", <<"int", id>>, <<"str", NameP>>,
                                <<<<<<"str", <<88>>>>, <<"int", INT>>>>,
                                  <<<<"str", <<89>>>>, <<"int", INT>>>>>>>>
            /\ wire = EmptyDesc => res.err = "NotImplementedError"

\* C11: a wire_type descriptor with more than one of ArrayT, SliceT,
\* StructT, MapT set is reported as an error and no decoder is produced or
\* registered for it, just as a descriptor with none of them set; and a
\* struct field delta that moves the field index past the end of the field
\* list makes the struct decode fail without returning a record.
C11_MalformedRejected ==
    /\ \A id \in CustomIds :
            /\ pc = "wire_type_decoded"
                    /\ wire \in {ArrayAndSliceDesc(id, INT, MaxArrayLen), EmptyDesc}
                => res.err # ""
            /\ pc = "loaded"
                    /\ wire \in {RegSegment(id, d) :
                                    d \in {ArrayAndSliceDesc(id, INT, MaxArrayLen), EmptyDesc}}
                => res.err # "" /\ segs = <<>>
    /\ pc = "loaded" /\ wire = ValueSegment(COMMON_TYPE, <<3, 2, 0>>)
            => res.err # ""

\* C12: no decode operation returns a value when the data it needs runs
\* off the end of the buffer: GoUint.decode fails on an empty buffer and on
\* a multi-byte varint cut short, and GoByteSlice.decode and GoString.decode
\* fail when the declared count exceeds the bytes that remain.
C12_TruncatedFails == pc = "truncated" => res.err # ""

\* C13: decoding a value of a registered Array(elem, length) type whose
\* transmitted element count differs from the declared length fails with
\* AssertionError before any element is decoded (also when the element type
\* is not registered); when the count equals the length the result is the
\* tuple of the length elements, in order.
C13_ArrayLengthMismatch ==
    \A id \in CustomIds :
        \A p \in Payloads :
            /\ pc = "loaded"
            /\ wire = ValueSegment(id, p)
            /\ id \in DOMAIN types
            /\ types[id][1] = "GoArray"
            => IF p[1] # types[id][3][2]
               THEN res.err = "AssertionError" /\ segs = <<>>
               ELSE /\ p = <<0>> => res = Ok(<<"tuple", <<>>>>, <<>>)
                    /\ p = <<2, 34, 84>> /\ types[id][2] = <<"int", INT>>
                        => res = Ok(<<"tuple", <<<<"int", 17>>, <<"int", 42>>>>>>, <<>>)

\* an array of two elements of the unregistered type 66 is sent one element
C13_Witness ==
    /\ pc = "loaded"
    /\ wire = ValueSegment(65, <<1, 6>>)
    /\ 65 \in DOMAIN types
    /\ types[65] = <<"GoArray", <<"int", 66>>, <<"int", MaxArrayLen>>>>
    /\ res.err = "AssertionError"

\* whether decoding the value segment of type id with payload p looks up an
\* id the registry does not hold: id itself, or the element id of the array
\* registered under id, once per element that is sent
C14_LooksUpMissing(id, p) ==
    \/ id \notin DOMAIN types
    \/ /\ id \in DOMAIN types
       /\ types[id][1] = "GoArray"
       /\ p[1] = types[id][3][2]
       /\ p[1] > 0
       /\ types[id][2][2] \notin DOMAIN types

C15_BootstrapRegistry ==
    pc = "constructed"
        => /\ (1..7) \cup (16..23) \subseteq DOMAIN types
           /\ types[FIELD_TYPE_SLICE] = <<"GoSlice", <<"int", FIELD_TYPE>>>>
           /\ types[STRUCT_TYPE] =
                <<"GoStruct", "StructType",
                  <<<<"CommonType", COMMON_TYPE>>, <<"Field", FIELD_TYPE_SLICE>>>>>>

\* the bytes the segments of log took from the input: for each, its length
\* prefix and the bytes up to the end of its descriptor or value
RECURSIVE C16_Consumed(_)
C16_Consumed(log) ==
    IF log = <<>> THEN 0
    ELSE Len(GoUint_encode(log[1][1]).bytes) + log[1][3] + C16_Consumed(Tail(log))

\* C16: load_all over a concatenation of valid messages yields one value per
\* value segment, in stream order; a type registered by an earlier message
\* stays registered for the later messages of the call (one registration
\* followed by two value segments yields two records); and the iteration
\* ends exactly when the bytes consumed equal the input length.
C16_StreamDecoding ==
    pc = "all_loaded"
        => /\ wire = <<3, 4, 0, 2, 3, 4, 0, 4, 3, 4, 0, 6>>
                => /\ res.err = ""
                   /\ res.val = <<"list", <<<<"int", 1>>, <<"int", 2>>, <<"int", 3>>>>>>
           /\ wire = <<3, 2, 0, 1, 3, 4, 0, 34, 4, 12, 0, 1, 33>>
                => /\ res.err = ""
                   /\ res.val = <<"list", <<<<"bool", TRUE>>, <<"int", 17>>,
                                            <<"bytes", <<33>>>>>>>>
           /\ wire = CustomTypeStream
                => /\ res.err = ""
                   /\ Len(res.val[2]) = 2
                   /\ \A i \in 1..2 : res.val[2][i][1] = "namedtuple"
                   /\ res.val[2][1][4] = <<<<"int", 0>>, <<"int", 0>>>>
                   /\ res.val[2][2][4] = <<<<"int", 3>>, <<"int", 4>>>>
           /\ res.err = ""
                => /\ Len(res.val[2]) = Cardinality({i \in 1..Len(segs) : segs[i][2] > 0})
                   /\ C16_Consumed(segs) = Len(wire)
           /\ wire = <<3, 4, 0, 2, 3, 4>> => res.err # ""

\* the zero values of the decoders registered for the ids tids
C17_Zeros(tids) ==
    [i \in 1..Len(tids) |-> Zero(types, types[tids[i]], MaxDepth).val]

\* C17: at every point of a session the zero value of a struct decoder is
\* the record of the zero values of the decoders currently registered for
\* its field type ids, in field order (CommonType(Name=b'', Id=0)); the zero
\* value of Array(elem, length) is the zero value of the decoder currently
\* registered for elem, repeated length times; the zero value of a slice is
\* the empty list and that of a map the empty mapping.
C17_ZeroValues ==
    pc = "zero"
        => /\ types[val[2]][1] \in {"GoStruct", "GoWireType"}
                => /\ res.err = ""
                   /\ res.val[1] = "namedtuple"
                   /\ res.val[3] = [i \in 1..Len(types[val[2]][3]) |-> types[val[2]][3][i][1]]
                   /\ res.val[4] = C17_Zeros([i \in 1..Len(types[val[2]][3]) |->
                                                types[val[2]][3][i][2]])
           /\ val[2] = COMMON_TYPE
                => res.val = <<"namedtuple", "CommonType", <<"Name", "Id">>,
                               <<<<"bytes", <<>>>>, <<"int", 0>>>>>>
           /\ types[val[2]][1] = "GoArray"
                => /\ res.err = ""
                   /\ res.val = <<"tuple", C17_Zeros([i \in 1..types[val[2]][3][2] |->
                                                        types[val[2]][2][2]])>>
                   /\ Len(res.val[2]) = MaxArrayLen
                   /\ \A i \in 1..MaxArrayLen :
                        res.val[2][i] = IF types[BOOL] = <<"GoBool">>
                                        THEN <<"bool", FALSE>> ELSE <<"list", <<>>>>
           /\ types[val[2]][1] = "GoSlice" => res = Ok(<<"list", <<>>>>, <<>>)
           /\ types[val[2]][1] = "GoMap" => res = Ok(<<"dict", <<>>>>, <<>>)

\* the zero value of an array of BOOL is taken after BOOL was registered
\* again, as a slice
C17_Witness ==
    /\ pc = "zero"
    /\ val = <<"int", 65>>
    /\ types[65] = <<"GoArray", <<"int", BOOL>>, <<"int", MaxArrayLen>>>>
    /\ types[BOOL] = <<"GoSlice", <<"int", INT>>>>
    /\ res = Ok(<<"tuple", [i \in 1..MaxArrayLen |-> <<"list", <<>>>>]>>, <<>>)

\* C18: the registry is changed only by a registration segment (tid < 0),
\* and only at the key -tid, after its descriptor has been decoded: every
\* step keeps every key, and a key that is new or bound to another decoder
\* after the step is the negation of the negative type id of a segment that
\* the step's load has registered.  Value segments, taking a zero value and
\* registrations that fail leave the registry as it was.
C18_RegistryFrame ==
    [][/\ DOMAIN types \subseteq DOMAIN types'
       /\ \A k \in DOMAIN types' :
            (k \notin DOMAIN types \/ types'[k] # types[k])
                => \E i \in 1..Len(segs') : segs'[i][2] < 0 /\ k = 0 - segs'[i][2]]_vars

\* C19: when two registration segments carry the same type id, the second
\* replaces the first with no error, and a value of that id decoded
\* afterwards uses the decoder built from the second descriptor: after a
\* slice and then a map descriptor the value 7: True decodes as a mapping,
\* after a map and then a slice descriptor the value 3 decodes as a list;
\* and a registration of 65 in a later load binds 65 to its decoder
\* whatever 65 was bound to.
C19_LastWriteWins ==
    pc = "loaded"
        => /\ wire = RegSegment(65, SliceDesc(65, INT)) \o RegSegment(65, MapDesc(65, INT, BOOL))
                        \o ValueSegment(65, <<1, 14, 1>>)
                => /\ Len(segs) >= 2
                   /\ segs[1][2] = -65 /\ segs[2][2] = -65
                   /\ types[65] = <<"GoMap", <<"int", INT>>, <<"int", BOOL>>>>
                   /\ types[BOOL] = <<"GoBool">>
                        => res = Ok(<<"dict", <<<<<<"int", 7>>, <<"bool", TRUE>>>>>>>>, <<>>)
           /\ wire = RegSegment(65, MapDesc(65, INT, BOOL)) \o RegSegment(65, SliceDesc(65, INT))
                        \o ValueSegment(65, <<1, 6>>)
                => /\ Len(segs) = 3
                   /\ segs[1][2] = -65 /\ segs[2][2] = -65
                   /\ types[65] = <<"GoSlice", <<"int", INT>>>>
                   /\ res = Ok(<<"list", <<<<"int", 3>>>>>>, <<>>)
           /\ wire = RegSegment(65, SliceDesc(65, INT))
                => types[65] = <<"GoSlice", <<"int", INT>>>>
           /\ wire = RegSegment(65, MapDesc(65, INT, BOOL))
                => types[65] = <<"GoMap", <<"int", INT>>, <<"int", BOOL>>>>
           /\ wire = RegSegment(65, ArrayDesc(65, BOOL, MaxArrayLen))
                => types[65] = <<"GoArray", <<"int", BOOL>>, <<"int", MaxArrayLen>>>>

\* 65 is registered as a map, then as a slice, and the value 3 is a list
C19_Witness ==
    /\ pc = "loaded"
    /\ wire = RegSegment(65, MapDesc(65, INT, BOOL)) \o RegSegment(65, SliceDesc(65, INT))
                \o ValueSegment(65, <<1, 6>>)
    /\ segs = <<<<14, -65, 14>>, <<12, -65, 12>>, <<5, 65, 5>>>>
    /\ res = Ok(<<"list", <<<<"int", 3>>>>>>, <<>>)

\* C20: after any sequence of Loader.load calls every key of the registry
\* is a strictly positive integer and the predefined ids are bound to the
\* decoders bound at construction: a segment whose type id is 0 or the
\* negation of a predefined id adds or replaces no entry.
C20_KeyDiscipline ==
    /\ \A k \in DOMAIN types : k > 0
    /\ \A k \in DOMAIN Loader_init : k \in DOMAIN types /\ types[k] = Loader_init[k]

====
